---------------------------- MODULE Spec2Model ----------------------------
(***************************************************************************)
(* The web API of the validator (txnserver/web_api.py): RootPage.do_post   *)
(* with its speculative validation of an enclosed transaction, the POST    *)
(* handlers (_msg_forward, _msg_initiate, _msg_echo, _do_command), do_get  *)
(* with _handle_txn_request, and the deferred completion (final, errback). *)
(*                                                                         *)
(* A request is handled on a worker thread (threads.deferToThread); every  *)
(* access of do_post to the ledger's shared objects is a step of its own.  *)
(***************************************************************************)
EXTENDS Integers, Sequences, FiniteSets, TLC

(***************************************************************************)
(* Bounds of the model.                                                    *)
(***************************************************************************)
MaxQueue == 1          \* queued messages, under Spec
MaxPending == 1        \* pending transactions, under Spec
MaxReplayQueue == 3    \* queued messages, under SpecReplay
MaxReplayPending == 2  \* pending transactions, under SpecReplay
MaxPairQueue == 1      \* queued messages, under SpecPair
MaxPairPending == 2    \* pending transactions, under SpecPair
MaxPoolQueue == 1      \* queued messages, under SpecPool
MaxPoolPending == 1    \* pending transactions, under SpecPool
MaxEnvQueue == 1       \* queued messages, under SpecEnv
MaxEnvPending == 1     \* pending transactions, under SpecEnv
MaxBlocks == 3         \* committed blocks, under SpecQuery
MaxLiveQueue == 2      \* queued messages, under SpecLive
MaxLivePending == 2    \* pending transactions, under SpecLive

(***************************************************************************)
(* twisted.web.http status codes used by the module.                       *)
(***************************************************************************)
OK == 200
FOUND == 302
BAD_REQUEST == 400
NOT_FOUND == 404
NOT_ALLOWED == 405

None == "None"
NullIdentifier == "NullIdentifier"
LOOPBACK == "127.0.0.1"
ClientIPs == {LOOPBACK, "10.0.0.7"}

(***************************************************************************)
(* Transactions.  The family rules (is_valid / check_valid / apply) are a  *)
(* pluggable capability outside web_api.py: a transaction needs a set of   *)
(* keys to be present in its family store and adds one key that must not   *)
(* be there yet.  "/A" is a registered family, "/X" has no store.          *)
(***************************************************************************)
Keys == {"k1", "k2"}
LedgerTxnIds == {"t1", "t2", "tx"}
TxnIds == LedgerTxnIds \cup {"te"}

TransactionTypeName(t) ==
    IF t = "tx" THEN "/X" ELSE "/A"

Requires(t) ==
    IF t = "t2" THEN {"k1"} ELSE {}

Adds(t) ==
    IF t = "t2" THEN "k2" ELSE "k1"

\* Transaction.check_valid(store): "ok", or the exception it raises.
check_valid(t, store) ==
    IF t = "te" THEN "Exception"
    ELSE IF Requires(t) \subseteq store /\ Adds(t) \notin store THEN "ok"
    ELSE "InvalidTransactionError"

\* Transaction.is_valid(store)
is_valid(t, store) == check_valid(t, store) = "ok"

\* Transaction.apply(store): the store's content afterwards.
apply(t, store) == store \cup {Adds(t)}

(***************************************************************************)
(* Messages.  Ledger.MessageHandlerMap registers the message types; a      *)
(* message may or may not have a Transaction attribute.                    *)
(***************************************************************************)
MessageHandlerMap == {"/Txn", "/Plain"}

TxnMsg(t) == [MessageType |-> "/Txn", HasTransaction |-> TRUE,
              Transaction |-> t, SignedByNode |-> FALSE]
PlainMsg == [MessageType |-> "/Plain", HasTransaction |-> FALSE,
             Transaction |-> None, SignedByNode |-> FALSE]
StrayMsg == [MessageType |-> "/Stray", HasTransaction |-> FALSE,
             Transaction |-> None, SignedByNode |-> FALSE]
NoMsg == [MessageType |-> None, HasTransaction |-> FALSE,
          Transaction |-> None, SignedByNode |-> FALSE]

\* What the gossip side may have put on the ledger's message queue.
QueuedMessages == {TxnMsg(t) : t \in LedgerTxnIds} \cup {PlainMsg, StrayMsg}


(***************************************************************************)
(* The requests.  A client chooses the path, the Content-Type header, the  *)
(* body and (by where it connects from) the client address.                *)
(***************************************************************************)
PostPageMap == {"default", "forward", "initiate", "command", "echo"}
GetPageMap == {"block", "statistics", "store", "transaction", "status"}

JSON == "application/json"
CBOR == "application/cbor"
Encodings == {JSON, CBOR, "text/plain"}

\* The dictionaries a body can decode to.
MessageInfos ==
    {[TYPE |-> "/Txn", wellformed |-> TRUE, Transaction |-> t, action |-> None] :
        t \in TxnIds \cup {None}}
    \cup {[TYPE |-> "/Txn", wellformed |-> FALSE, Transaction |-> None, action |-> None],
          [TYPE |-> "/Plain", wellformed |-> TRUE, Transaction |-> None, action |-> None],
          [TYPE |-> "/Stray", wellformed |-> TRUE, Transaction |-> None, action |-> None],
          [TYPE |-> None, wellformed |-> TRUE, Transaction |-> None, action |-> None]}

CommandInfos ==
    {[TYPE |-> None, wellformed |-> TRUE, Transaction |-> None, action |-> a] :
        a \in {"start", "stop", None}}

NoInfo == [TYPE |-> None, wellformed |-> FALSE, Transaction |-> None, action |-> None]

\* A body: the format it is written in and the dictionary it holds.
Junk == [wire |-> "junk", minfo |-> NoInfo]

Bodies(infos) ==
    {[wire |-> w, minfo |-> i] : w \in {JSON, CBOR}, i \in infos} \cup {Junk}

\* gossip.common.json2dict / cbor2dict: the dictionary, unless the body is
\* not of that format and the decoder raises.
json2dict(data) == [raised |-> data.wire # JSON, dict |-> data.minfo]
cbor2dict(data) == [raised |-> data.wire # CBOR, dict |-> data.minfo]

\* request.args: the arguments of the query string that the handlers read.
\* blockcount is absent, a number or something int() raises on.
NoCount == [present |-> FALSE, valid |-> FALSE, n |-> 0]
Count(n) == [present |-> TRUE, valid |-> TRUE, n |-> n]
BadCount == [present |-> TRUE, valid |-> FALSE, n |-> 0]
NoArgs == [blockcount |-> NoCount, blockid |-> None]

\* The POST requests a client can send.
AllPostRequests ==
    {[method |-> "POST", path |-> <<p>>, encoding |-> e, data |-> d, ip |-> a,
      args |-> NoArgs] :
        p \in {"forward", "initiate", "echo", "peers"}, e \in Encodings,
        d \in Bodies(MessageInfos), a \in ClientIPs}
    \cup
    {[method |-> "POST", path |-> <<"command">>, encoding |-> e, data |-> d, ip |-> a,
      args |-> NoArgs] :
        e \in Encodings, d \in Bodies(CommandInfos), a \in ClientIPs}

\* Those that differ in something do_post reads: a body is only read under a
\* recognized Content-Type (and decodes only when written in that format),
\* and the client address only by /initiate.  The enclosed transactions are
\* varied under JSON; under CBOR "t1" stands for them, and under another
\* Content-Type a JSON body with "t1" or with the action 'start'.
Relevant(q) ==
    /\ q.encoding \notin {JSON, CBOR} =>
          \/ q.data = Junk
          \/ /\ q.data.wire = JSON
             /\ q.data.minfo.wellformed
             /\ q.data.minfo.Transaction = "t1" \/ q.data.minfo.action = "start"
    /\ q.encoding \in {JSON, CBOR} => q.data.wire \in {q.encoding, "junk"}
    /\ q.encoding = CBOR => q.data.minfo.Transaction \in {"t1", None}
    /\ q.path[1] # "initiate" => q.ip # LOOPBACK

PostRequests == {q \in AllPostRequests : Relevant(q)}

\* The submissions of a transaction message to /forward, in JSON.
ForwardRequests ==
    {q \in PostRequests :
        /\ q.path = <<"forward">> /\ q.encoding = JSON /\ q.data.wire = JSON
        /\ q.data.minfo.TYPE = "/Txn" /\ q.data.minfo.wellformed
        /\ q.data.minfo.Transaction # None}

\* The read requests of a client: GET or HEAD of /transaction/<txnid>.
GetRequests ==
    {[method |-> m, path |-> <<"transaction", t>>, encoding |-> None,
      data |-> Junk, ip |-> "10.0.0.7", args |-> NoArgs] :
        m \in {"GET", "HEAD"}, t \in LedgerTxnIds \cup {"t9"}}

(***************************************************************************)
(* The state: the ledger's shared objects, the validator's startup hold,   *)
(* the calls of Ledger.handle_message, and the requests.                   *)
(***************************************************************************)
VARIABLES
    MostRecentCommittedBlockID,  \* Ledger.MostRecentCommittedBlockID
    GlobalStoreMap,              \* Ledger.GlobalStoreMap: block id -> store map
    MessageQueue,                \* Ledger.MessageQueue, newest message last
    PendingTransactions,         \* Ledger.PendingTransactions, keys in iteration order
    TransactionStore,            \* Ledger.TransactionStore: txn id -> transaction
    LedgerBlockStore,            \* Ledger.BlockStore: block id -> block
    delaystart,                  \* Validator.delaystart
    handled,                     \* request -> messages it passed to Ledger.handle_message
    req                          \* request -> the request and the locals of its handler

ledger == <<MostRecentCommittedBlockID, GlobalStoreMap, MessageQueue,
            PendingTransactions, TransactionStore, LedgerBlockStore>>
vars == <<MostRecentCommittedBlockID, GlobalStoreMap, MessageQueue,
          PendingTransactions, TransactionStore, LedgerBlockStore,
          delaystart,
          handled, req>>

\* The request objects there can be; DOMAIN req are those of the run.
RequestIds == {1, 2}

\* Sequences over S without repetition, of length at most n.
RECURSIVE DistinctSeqs(_, _)
DistinctSeqs(S, n) ==
    IF n = 0 THEN {<<>>}
    ELSE LET shorter == DistinctSeqs(S, n - 1)
         IN  shorter \cup
             UNION {{Append(s, x) : x \in S \ {s[i] : i \in 1..Len(s)}} :
                       s \in {u \in shorter : Len(u) = n - 1}}

Range(s) == {s[i] : i \in 1..Len(s)}


(***************************************************************************)
(* The ledger's collaborators, as far as do_post and do_get use them.      *)
(***************************************************************************)
EmptyStores == [f \in {} |-> {}]

\* A block store object: its family stores, and the committed block whose
\* stores they are (None: stores of its own, which no block owns).
StoreMap(block, stores) == [of |-> block, TransactionStores |-> stores]

\* No store map (Python's None).
NoneStoreMap == StoreMap("no store map", EmptyStores)

\* GlobalStoreMap.get_block_store(block_id): the store map, or None.
get_block_store(block_id) ==
    IF block_id \in DOMAIN GlobalStoreMap THEN GlobalStoreMap[block_id]
    ELSE NoneStoreMap

\* global_store_manager.BlockStore(prevstore): a new block store whose
\* family stores are clones of prevstore's; none without a prevstore.
BlockStore(prevstore) ==
    IF prevstore = NoneStoreMap THEN StoreMap(None, EmptyStores)
    ELSE StoreMap(None, prevstore.TransactionStores)

\* "not temp_store_map": no store map was found for the block.
NoStoreMap(temp_store_map) == DOMAIN temp_store_map.TransactionStores = {}

\* The states of the ledger's shared objects the commit and gossip side can
\* leave behind: the transactions committed so far (in order), whether a
\* block was committed at all, the pending ones and the queued messages.
StoreOf(committed) == {Adds(committed[i]) : i \in 1..Len(committed)}

LedgerOf(committed, block, pending, queue) ==
    [MostRecentCommittedBlockID |-> block,
     GlobalStoreMap |->
        [b \in {block} \ {NullIdentifier} |->
            StoreMap(b, [f \in {"/A"} |-> StoreOf(committed)])],
     MessageQueue |-> queue,
     PendingTransactions |-> pending,
     TransactionStore |->
        [t \in Range(committed) \cup Range(pending) |->
            IF t \in Range(committed)
            THEN [Status |-> "committed", InBlock |-> block]
            ELSE [Status |-> "pending", InBlock |-> None]],
     BlockStore |->
        [b \in {block} \ {NullIdentifier} |->
            [PreviousBlockID |-> NullIdentifier, TransactionIDs |-> committed]]]

LedgerStates(maxqueue, maxpending) ==
    UNION {UNION {
        {LedgerOf(c, b, p, q) :
            p \in DistinctSeqs(LedgerTxnIds \ Range(c), maxpending),
            q \in DistinctSeqs(QueuedMessages, maxqueue)} :
        b \in IF c = <<>> THEN {NullIdentifier, "b1"} ELSE {"b1"}} :
        c \in {<<>>, <<"t1">>, <<"t1", "t2">>}}

(***************************************************************************)
(* A request and the locals of the handler working on it.                  *)
(***************************************************************************)
NoQueue == [ref |-> None, items |-> <<>>]

IdleRequest ==
    [pc |-> "idle", method |-> None, path |-> <<>>, encoding |-> None,
     data |-> Junk, ip |-> None, args |-> NoArgs,
     prefix |-> None,            \* do_post: prefix
     msg |-> NoMsg,              \* do_post: msg (mymsg is its deep copy)
     cmd |-> None,               \* _do_command: cmd['action']
     temp_store_map |-> NoneStoreMap,
     my_queue |-> NoQueue,
     copied |-> <<>>,            \* the queue as my_queue copied it
     txn_iter |-> 0,             \* the keys of PendingTransactions visited
     iter_size |-> 0,            \* its size when the iteration started
     snapshot |-> <<>>,          \* its keys when the iteration started
     visited |-> <<>>,           \* the keys the iteration has given
     closed |-> FALSE,           \* the peer has closed the connection
     logged |-> FALSE,           \* final logged "No connection ..."
     checked |-> None,           \* what check_valid of the candidate gave
     code |-> OK,                \* request.setResponseCode
     response |-> <<>>,          \* the list a GET handler returned
     result |-> None,            \* what do_get / do_post returned
     written |-> None]           \* what final wrote

InitOn(requests, ledgers, holds) ==
    /\ \E l \in ledgers :
        /\ MostRecentCommittedBlockID = l.MostRecentCommittedBlockID
        /\ GlobalStoreMap = l.GlobalStoreMap
        /\ MessageQueue = l.MessageQueue
        /\ PendingTransactions = l.PendingTransactions
        /\ TransactionStore = l.TransactionStore
        /\ LedgerBlockStore = l.BlockStore
    /\ delaystart \in holds
    /\ handled = [r \in requests |-> <<>>]
    /\ req = [r \in requests |-> IdleRequest]

InitWith(requests, maxqueue, maxpending, holds) ==
    InitOn(requests, LedgerStates(maxqueue, maxpending), holds)

Init == InitWith({1}, MaxQueue, MaxPending, BOOLEAN)

(***************************************************************************)
(* RootPage.error_response: the status code is set, the text is returned   *)
(* (nothing for a HEAD request).                                           *)
(***************************************************************************)
error_response(q, response, msg) ==
    [q EXCEPT !.pc = "returned", !.code = response,
              !.result = IF q.method = "HEAD" THEN "" ELSE msg]

\* An exception that leaves do_get / do_post: the deferred fails.
Raise(q, exception) == [q EXCEPT !.pc = "raised", !.result = exception]

(***************************************************************************)
(* render_GET, render_POST: the request is handed to a worker thread       *)
(* (threads.deferToThread) that runs do_get or do_post on it; the pool has *)
(* workers threads.                                                        *)
(***************************************************************************)
Busy(q) == q.pc \notin {"idle", "completed", "failed"}

Arrive(r, inputs, workers, pc) ==
    /\ r \in DOMAIN req
    /\ req[r].pc = "idle"
    /\ Cardinality({x \in DOMAIN req : Busy(req[x])}) < workers
    /\ \E q \in inputs :
        req' = [req EXCEPT ![r] =
                    [IdleRequest EXCEPT !.pc = pc, !.method = q.method,
                        !.path = q.path, !.encoding = q.encoding,
                        !.data = q.data, !.ip = q.ip, !.args = q.args]]
    /\ handled' = [handled EXCEPT ![r] = <<>>]
    /\ UNCHANGED <<ledger, delaystart>>

render_POST(r) == Arrive(r, PostRequests, 1, "do_post")

render_GET(r) == Arrive(r, GetRequests, 1, "do_get")

\* A transaction message is posted to /forward.
render_forward(r) == Arrive(r, ForwardRequests, 1, "do_post")

\* The same, with a second worker thread in the pool.
render_pooled(r) == Arrive(r, ForwardRequests, 2, "do_post")

(***************************************************************************)
(* do_post, to the decoded message: the selector, the Content-Type, the    *)
(* decoding, the message type and the message's constructor; then whether  *)
(* the message holds a transaction.                                        *)
(***************************************************************************)
Selector(path, pagemap) ==
    IF path # <<>> /\ path[1] \in pagemap THEN path[1] ELSE "default"

\* MessageHandlerMap[typename][0](minfo): the message built from the
\* dictionary; the constructor raises on a malformed one.
Construct(minfo) ==
    [raised |-> ~minfo.wellformed,
     msg |-> [MessageType |-> minfo.TYPE,
              HasTransaction |-> (minfo.TYPE = "/Txn"),
              Transaction |-> minfo.Transaction,
              SignedByNode |-> FALSE]]

\* (A variant that validates whatever the message holds.)
HoldsAnything(mymsg) == TRUE

\* hasattr(mymsg, 'Transaction') and mymsg.Transaction is not None
HoldsTransaction(mymsg) == mymsg.HasTransaction /\ mymsg.Transaction # None

\* (A variant that reads a body of any Content-Type as JSON.)
AnyEncoding(encoding) == JSON

\* request.getHeader('Content-Type')
getHeader(encoding) == encoding

Decoded(q) ==
    LET prefix == Selector(q.path, PostPageMap)
        p == [q EXCEPT !.prefix = prefix]
        encoding == getHeader(q.encoding)
    IN  IF prefix = "command"
        THEN IF encoding # JSON
             THEN error_response(p, BAD_REQUEST, "bad message encoding")
             ELSE IF json2dict(q.data).raised
             THEN error_response(p, BAD_REQUEST, "unable to decode incoming request")
             ELSE [p EXCEPT !.pc = "command", !.cmd = json2dict(q.data).dict.action]
        ELSE IF encoding \notin {JSON, CBOR}
             THEN error_response(p, BAD_REQUEST, "unknown message encoding")
             ELSE LET minfo == IF encoding = JSON THEN json2dict(q.data)
                               ELSE cbor2dict(q.data)
                  IN  IF minfo.raised
                      THEN error_response(p, BAD_REQUEST,
                                          "unabled to decode incoming request")
                      ELSE IF minfo.dict.TYPE \notin MessageHandlerMap
                      THEN error_response(p, BAD_REQUEST,
                                          "received request for unknown message type")
                      ELSE IF Construct(minfo.dict).raised
                      THEN error_response(p, BAD_REQUEST,
                                          "unabled to decode incoming request")
                      ELSE LET msg == Construct(minfo.dict).msg
                           IN  [p EXCEPT !.msg = msg,
                                   !.pc = IF HoldsTransaction(msg)
                                          THEN "validate" ELSE "handler"]

PostDecode(r) ==
    /\ r \in DOMAIN req
    /\ req[r].pc = "do_post"
    /\ req' = [req EXCEPT ![r] = Decoded(req[r])]
    /\ UNCHANGED <<ledger, delaystart, handled>>


(***************************************************************************)
(* do_post, the validation of the enclosed transaction.                    *)
(*                                                                         *)
(* First the store map of the most recently committed block and a block    *)
(* store of the request's own on top of it; the request is refused when    *)
(* there is none or when it has no store of the transaction's family.      *)
(***************************************************************************)
\* (A variant that works on the committed block's own store map.)
SharedStoreMap(real_store_map) == real_store_map

TempStoreMap(real_store_map) == BlockStore(real_store_map)

\* (Variants of the lookup: without the test of the family; with no test.)
LookedAnyFamily(q) ==
    LET temp_store_map == TempStoreMap(get_block_store(MostRecentCommittedBlockID))
    IN  IF NoStoreMap(temp_store_map)
        THEN error_response(q, BAD_REQUEST,
                            "unable to validate enclosed transaction")
        ELSE [q EXCEPT !.pc = "copy_queue", !.temp_store_map = temp_store_map]

LookedUnguarded(q) ==
    [q EXCEPT !.pc = "copy_queue",
              !.temp_store_map =
                  TempStoreMap(get_block_store(MostRecentCommittedBlockID))]

Looked(q) ==
    LET block_id == MostRecentCommittedBlockID
        real_store_map == get_block_store(block_id)
        temp_store_map == TempStoreMap(real_store_map)
        transaction_type == TransactionTypeName(q.msg.Transaction)
    IN  IF NoStoreMap(temp_store_map)
        THEN error_response(q, BAD_REQUEST,
                            "unable to validate enclosed transaction")
        ELSE IF transaction_type \notin DOMAIN temp_store_map.TransactionStores
        THEN error_response(q, BAD_REQUEST,
                            "unable to validate enclosed transaction")
        ELSE [q EXCEPT !.pc = "copy_queue", !.temp_store_map = temp_store_map]

ValidateLookup(r) ==
    /\ r \in DOMAIN req
    /\ req[r].pc = "validate"
    /\ req' = [req EXCEPT ![r] = Looked(req[r])]
    /\ UNCHANGED <<ledger, delaystart, handled>>

(***************************************************************************)
(* my_queue = copy.deepcopy(self.Ledger.MessageQueue): a queue object of   *)
(* the request's own with the same messages.                               *)
(***************************************************************************)
\* (A variant that takes the ledger's queue object itself.)
no_copy(queue) == [ref |-> "ledger", items |-> queue]

deepcopy(queue) == [ref |-> "copy", items |-> queue]

CopyQueue(r) ==
    /\ r \in DOMAIN req
    /\ req[r].pc = "copy_queue"
    /\ req' = [req EXCEPT ![r].my_queue = deepcopy(MessageQueue),
                          ![r].copied = MessageQueue,
                          ![r].pc = "replay_queue"]
    /\ UNCHANGED <<ledger, delaystart, handled>>

(***************************************************************************)
(* The objects a request's locals refer to, and a write to them.           *)
(***************************************************************************)
Items(my_queue) ==
    IF my_queue.ref = "ledger" THEN MessageQueue ELSE my_queue.items

Stores(temp_store_map) ==
    IF temp_store_map.of \in DOMAIN GlobalStoreMap
    THEN GlobalStoreMap[temp_store_map.of].TransactionStores
    ELSE temp_store_map.TransactionStores

\* The request r goes on as q, its queue object holding items and its block
\* store object holding stores.
Write(r, q, items, stores) ==
    /\ req' = [req EXCEPT ![r] =
                [q EXCEPT !.my_queue.items = items,
                          !.temp_store_map.TransactionStores = stores]]
    /\ MessageQueue' =
         IF q.my_queue.ref = "ledger" THEN items ELSE MessageQueue
    /\ GlobalStoreMap' =
         IF q.temp_store_map.of \in DOMAIN GlobalStoreMap
         THEN [GlobalStoreMap EXCEPT
                  ![q.temp_store_map.of].TransactionStores = stores]
         ELSE GlobalStoreMap

\* (A variant that applies without asking is_valid.)
ReplayedUnchecked(stores, t) ==
    LET name == TransactionTypeName(t)
    IN  IF name \notin DOMAIN stores THEN [raised |-> TRUE, stores |-> stores]
        ELSE [raised |-> FALSE,
              stores |-> [stores EXCEPT ![name] = apply(t, stores[name])]]

\* temp_store_map.get_transaction_store(name), then "if txn.is_valid(my_store):
\* copy.copy(txn).apply(my_store)": the stores afterwards, unless there is
\* no store of that name.
Replayed(stores, t) ==
    LET name == TransactionTypeName(t)
    IN  IF name \notin DOMAIN stores THEN [raised |-> TRUE, stores |-> stores]
        ELSE IF is_valid(t, stores[name])
        THEN [raised |-> FALSE,
              stores |-> [stores EXCEPT ![name] = apply(t, stores[name])]]
        ELSE [raised |-> FALSE, stores |-> stores]

(***************************************************************************)
(* One turn of "while len(my_queue) > 0": the message my_queue.pop() gives *)
(* is replayed on the request's block store.  With the queue empty, the    *)
(* iteration over the keys of PendingTransactions starts.                  *)
(***************************************************************************)
\* (A variant that takes the messages from the other end.)
popleft(items) ==
    [qmsg |-> items[1], rest |-> SubSeq(items, 2, Len(items))]

\* (A variant that leaves the message on the queue.)
peek(items) ==
    [qmsg |-> items[Len(items)], rest |-> items]

pop(items) ==
    [qmsg |-> items[Len(items)], rest |-> SubSeq(items, 1, Len(items) - 1)]

ReplayQueue(r) ==
    LET q == req[r]
        items == Items(q.my_queue)
        stores == Stores(q.temp_store_map)
    IN  /\ r \in DOMAIN req
        /\ q.pc = "replay_queue"
        /\ IF Len(items) = 0
           THEN Write(r, [q EXCEPT !.pc = "replay_pending", !.txn_iter = 0,
                             !.iter_size = Len(PendingTransactions),
                             !.snapshot = PendingTransactions,
                             !.visited = <<>>],
                      items, stores)
           ELSE LET qmsg == pop(items).qmsg
                    rest == pop(items).rest
                IN  IF /\ qmsg.MessageType \in MessageHandlerMap
                       /\ qmsg.HasTransaction
                       /\ qmsg.Transaction # None
                    THEN IF Replayed(stores, qmsg.Transaction).raised
                         THEN Write(r, Raise(q, "KeyError"), rest, stores)
                         ELSE Write(r, q, rest,
                                    Replayed(stores, qmsg.Transaction).stores)
                    ELSE Write(r, q, rest, stores)
        /\ UNCHANGED <<LedgerBlockStore, MostRecentCommittedBlockID, PendingTransactions,
                       TransactionStore, delaystart, handled>>

(***************************************************************************)
(* One turn of "for txn_id in self.Ledger.PendingTransactions.iterkeys()". *)
(* The iterator walks the ledger's own dictionary, not a copy.  When the   *)
(* dictionary has changed size since the iteration started, a plain dict   *)
(* makes the iterator raise RuntimeError, an ordered dictionary lets it go *)
(* on along the keys as they are now; which of the two it is the journal   *)
(* decides.                                                                *)
(***************************************************************************)
DictKinds == {"dict", "OrderedDict"}

\* The keys the iterator has still to give: those of the dictionary as it
\* is now that it has not given yet.
RECURSIVE Unvisited(_, _)
Unvisited(keys, visited) ==
    IF keys = <<>> THEN <<>>
    ELSE IF Head(keys) \in Range(visited) THEN Unvisited(Tail(keys), visited)
    ELSE <<Head(keys)>> \o Unvisited(Tail(keys), visited)

ReplayPending(r) ==
    LET q == req[r]
        items == Items(q.my_queue)
        stores == Stores(q.temp_store_map)
        rest == Unvisited(PendingTransactions, q.visited)
    IN  /\ r \in DOMAIN req
        /\ q.pc = "replay_pending"
        /\ \E kind \in DictKinds :
            IF kind = "dict" /\ Len(PendingTransactions) # q.iter_size
            THEN Write(r, Raise(q, "RuntimeError"), items, stores)
            ELSE IF rest = <<>>
            THEN Write(r, [q EXCEPT !.pc = "check"], items, stores)
            ELSE LET txn_id == Head(rest)
                     next == [q EXCEPT !.txn_iter = q.txn_iter + 1,
                                       !.visited = Append(q.visited, txn_id)]
                 IN  IF txn_id \notin DOMAIN TransactionStore
                     THEN Write(r, Raise(q, "KeyError"), items, stores)
                     ELSE IF Replayed(stores, txn_id).raised
                     THEN Write(r, Raise(q, "KeyError"), items, stores)
                     ELSE Write(r, next, items, Replayed(stores, txn_id).stores)
        /\ UNCHANGED <<LedgerBlockStore, MostRecentCommittedBlockID, PendingTransactions,
                       TransactionStore, delaystart, handled>>

(***************************************************************************)
(* mytxn.check_valid(my_store) on the replayed stores: the request is      *)
(* refused when it raises.                                                 *)
(***************************************************************************)
\* (A variant that goes on whatever check_valid raises.)
CheckedAnyway(q, stores) ==
    LET mytxn == q.msg.Transaction
        name == TransactionTypeName(mytxn)
    IN  IF name \notin DOMAIN stores THEN Raise(q, "KeyError")
        ELSE [q EXCEPT !.checked = check_valid(mytxn, stores[name]),
                       !.pc = "handler"]

Checked(q, stores) ==
    LET mytxn == q.msg.Transaction
        name == TransactionTypeName(mytxn)
    IN  IF name \notin DOMAIN stores THEN Raise(q, "KeyError")
        ELSE LET outcome == check_valid(mytxn, stores[name])
                 c == [q EXCEPT !.checked = outcome]
             IN  IF outcome = "InvalidTransactionError"
                 THEN error_response(c, BAD_REQUEST,
                        "enclosed transaction failed transaction family validation check")
                 ELSE IF outcome # "ok"
                 THEN error_response(c, BAD_REQUEST,
                                     "enclosed transaction is not valid")
                 ELSE [c EXCEPT !.pc = "handler"]

CheckCandidate(r) ==
    /\ r \in DOMAIN req
    /\ req[r].pc = "check"
    /\ req' = [req EXCEPT ![r] = Checked(req[r], Stores(req[r].temp_store_map))]
    /\ UNCHANGED <<ledger, delaystart, handled>>


(***************************************************************************)
(* do_post, the handler the selector names and the encoding of its answer. *)
(* An Error the handler raises gives its status, anything else it raises a *)
(* bad request.                                                            *)
(***************************************************************************)
Encoded(encoding) ==
    IF encoding = JSON THEN "message as json" ELSE "message as cbor"

Answered(q, msg) ==
    [q EXCEPT !.pc = "returned", !.msg = msg, !.result = Encoded(q.encoding)]

\* _msg_forward
msg_forward(q) ==
    [handle_message |-> <<q.msg>>, q |-> Answered(q, q.msg)]

\* (A variant that takes every client for a local one.)
NeverRemote(ip) == FALSE

\* request.getClientIP() != '127.0.0.1'
NotLocal(ip) == ip # LOOPBACK

\* (A variant of _msg_initiate that raises for no client.)
msg_initiate_open(q) ==
    IF q.msg.MessageType = "/Txn" /\ q.msg.Transaction = None
    THEN [handle_message |-> <<>>,
          q |-> error_response(q, BAD_REQUEST, "error processing http request")]
    ELSE [handle_message |-> <<[q.msg EXCEPT !.SignedByNode = TRUE]>>,
          q |-> Answered(q, [q.msg EXCEPT !.SignedByNode = TRUE])]

\* _msg_initiate
msg_initiate(q) ==
    IF NotLocal(q.ip)
    THEN [handle_message |-> <<>>,
          q |-> error_response(q, NOT_ALLOWED, "exception while processing request")]
    ELSE IF q.msg.MessageType = "/Txn" /\ q.msg.Transaction = None
    THEN [handle_message |-> <<>>,
          q |-> error_response(q, BAD_REQUEST, "error processing http request")]
    ELSE LET signed == [q.msg EXCEPT !.SignedByNode = TRUE]
         IN  [handle_message |-> <<signed>>, q |-> Answered(q, signed)]

\* (A variant of _msg_echo that passes the message on.)
msg_echo_relayed(q) ==
    [handle_message |-> <<q.msg>>, q |-> Answered(q, q.msg)]

\* _msg_echo
msg_echo(q) ==
    [handle_message |-> <<>>, q |-> Answered(q, q.msg)]

Handled(q) ==
    IF q.prefix = "initiate" THEN msg_initiate(q)
    ELSE IF q.prefix = "echo" THEN msg_echo(q)
    ELSE msg_forward(q)

PostHandler(r) ==
    /\ r \in DOMAIN req
    /\ req[r].pc = "handler"
    /\ req' = [req EXCEPT ![r] = Handled(req[r]).q]
    /\ handled' = [handled EXCEPT ![r] = @ \o Handled(req[r]).handle_message]
    /\ UNCHANGED <<ledger, delaystart>>

(***************************************************************************)
(* /command: _do_command.  The test of Validator.delaystart and the        *)
(* assignment that clears it are two steps of the worker thread.           *)
(***************************************************************************)
\* (A variant that takes every action for 'start'.)
CommandedAnyAction(q, hold) ==
    IF q.cmd = None
    THEN error_response(q, BAD_REQUEST, "error processing http request")
    ELSE IF hold = TRUE
    THEN [q EXCEPT !.pc = "command_start"]
    ELSE [q EXCEPT !.pc = "returned", !.cmd = "running", !.result = "running"]

Commanded(q, hold) ==
    IF q.cmd = None
    THEN error_response(q, BAD_REQUEST, "error processing http request")
    ELSE IF q.cmd = "start"
    THEN IF hold = TRUE
         THEN [q EXCEPT !.pc = "command_start"]
         ELSE [q EXCEPT !.pc = "returned", !.cmd = "running", !.result = "running"]
    ELSE [q EXCEPT !.pc = "returned", !.cmd = "startup failed",
                   !.result = "startup failed"]

DoCommand(r) ==
    /\ r \in DOMAIN req
    /\ req[r].pc = "command"
    /\ req' = [req EXCEPT ![r] = Commanded(req[r], delaystart)]
    /\ UNCHANGED <<ledger, delaystart, handled>>

DoCommandStart(r) ==
    /\ r \in DOMAIN req
    /\ req[r].pc = "command_start"
    /\ delaystart' = FALSE
    /\ req' = [req EXCEPT ![r].pc = "returned", ![r].cmd = "started",
                          ![r].result = "started"]
    /\ UNCHANGED <<ledger, handled>>

(***************************************************************************)
(* The deferred's callbacks: final writes what the handler returned and    *)
(* finishes the request, errback reports the failure.  Then the request    *)
(* object is gone and another request can arrive.                          *)
(***************************************************************************)
\* (A variant whose request.finish() is not inside a try.)
FinishedUnguarded(q) ==
    IF q.closed THEN Raise(q, "RuntimeError")
    ELSE [q EXCEPT !.pc = "completed", !.written = q.result]

\* request.write(message), then request.finish() inside "try ... except
\* RuntimeError".  On a connection the peer has closed the write goes
\* nowhere and finish raises RuntimeError.
Finished(q) ==
    IF q.closed THEN [q EXCEPT !.pc = "completed", !.logged = TRUE]
    ELSE [q EXCEPT !.pc = "completed", !.written = q.result]

final(r) ==
    /\ r \in DOMAIN req
    /\ req[r].pc = "returned"
    /\ req' = [req EXCEPT ![r] = Finished(req[r])]
    /\ UNCHANGED <<ledger, delaystart, handled>>

errback(r) ==
    /\ r \in DOMAIN req
    /\ req[r].pc = "raised"
    /\ req' = [req EXCEPT ![r].pc = "failed"]
    /\ UNCHANGED <<ledger, delaystart, handled>>

Release(r) ==
    /\ r \in DOMAIN req
    /\ req[r].pc \in {"completed", "failed"}
    /\ req' = [req EXCEPT ![r] = IdleRequest]
    /\ handled' = [handled EXCEPT ![r] = <<>>]
    /\ UNCHANGED <<ledger, delaystart>>

(***************************************************************************)
(* do_get and its handlers _handle_txn_request, _handle_blk_request and    *)
(* _handle_store_request.  A handler returns a value or raises Error with  *)
(* a status; what else it raises do_get answers as a bad request.  A HEAD  *)
(* request (test_only) is answered without a body.                         *)
(***************************************************************************)
Returned(value) == [status |-> OK, value |-> value]
Error(status) == [status |-> status, value |-> <<>>]

\* Ledger.committed_block_ids(count): the ids of the committed blocks from
\* the most recently committed one back along PreviousBlockID, newest
\* first; all of them for count 0, else the first count.
RECURSIVE BackFrom(_)
BackFrom(block_id) ==
    IF block_id \notin DOMAIN LedgerBlockStore THEN <<>>
    ELSE <<block_id>> \o BackFrom(LedgerBlockStore[block_id].PreviousBlockID)

committed_block_ids(count) ==
    LET all == BackFrom(MostRecentCommittedBlockID)
    IN  IF count = 0 \/ count >= Len(all) THEN all ELSE SubSeq(all, 1, count)

\* (A variant that takes the block ids from the front.)
RECURSIVE extend_from_front(_, _)
extend_from_front(blockids, txnids) ==
    IF blockids = <<>> THEN txnids
    ELSE extend_from_front(Tail(blockids),
            txnids \o LedgerBlockStore[Head(blockids)].TransactionIDs)

\* "while blockids: blockid = blockids.pop();
\*  txnids.extend(self.Ledger.BlockStore[blockid].TransactionIDs)"
RECURSIVE extend_txnids(_, _)
extend_txnids(blockids, txnids) ==
    IF blockids = <<>> THEN txnids
    ELSE LET blockid == blockids[Len(blockids)]
         IN  extend_txnids(SubSeq(blockids, 1, Len(blockids) - 1),
                txnids \o LedgerBlockStore[blockid].TransactionIDs)

\* The fields of txn.dump() with Identifier and Status, and InBlock for a
\* committed transaction; those of block.dump() with Identifier.
tinfo(txn) ==
    {"TransactionType", "Identifier", "Status"}
        \cup (IF txn.Status = "committed" THEN {"InBlock"} ELSE {})

binfo == {"PreviousBlockID", "TransactionIDs", "Identifier"}

\* (A variant whose HEAD answer does not look at the status.)
handle_txn_request_found(q, path_components, test_only) ==
    IF path_components[1] \notin DOMAIN TransactionStore
    THEN Error(NOT_FOUND)
    ELSE Returned(<<>>)

handle_txn_request(q, path_components, test_only) ==
    IF Len(path_components) = 0
    THEN IF q.args.blockcount.present /\ ~q.args.blockcount.valid
         THEN Error(BAD_REQUEST)
         ELSE Returned(extend_txnids(
                          committed_block_ids(q.args.blockcount.n), <<>>))
    ELSE LET txnid == path_components[1]
         IN  IF txnid \notin DOMAIN TransactionStore
             THEN Error(NOT_FOUND)
             ELSE LET txn == TransactionStore[txnid]
                  IN  IF test_only
                      THEN IF txn.Status = "committed"
                           THEN Returned(<<>>)
                           ELSE Error(FOUND)
                      ELSE IF Len(path_components) = 1
                      THEN Returned(<<>>)
                      ELSE IF path_components[2] \notin tinfo(txn)
                      THEN Error(BAD_REQUEST)
                      ELSE Returned(<<>>)

\* (A variant that does not look whether the block is there.)
handle_blk_request_any(q, path_components, test_only) == Returned(<<>>)

handle_blk_request(q, path_components, test_only) ==
    IF Len(path_components) = 0
    THEN IF q.args.blockcount.present /\ ~q.args.blockcount.valid
         THEN Error(BAD_REQUEST)
         ELSE Returned(committed_block_ids(q.args.blockcount.n))
    ELSE LET block_id == path_components[1]
         IN  IF block_id \notin DOMAIN LedgerBlockStore
             THEN Error(BAD_REQUEST)
             ELSE IF Len(path_components) = 1
             THEN Returned(<<>>)
             ELSE IF path_components[2] \notin binfo
             THEN Error(BAD_REQUEST)
             ELSE Returned(<<>>)

\* "not self.Ledger.GlobalStore": there is no global store.
NoGlobalStore == DOMAIN GlobalStoreMap = {}

\* '/' + path_components.pop(0)
Slashed(name) ==
    IF name = "A" THEN "/A" ELSE IF name = "X" THEN "/X" ELSE "/Z"

handle_store_request(q, path_components, test_only) ==
    LET block_id == IF q.args.blockid # None THEN q.args.blockid
                    ELSE MostRecentCommittedBlockID
        storemap == get_block_store(block_id)
    IN  IF NoGlobalStore THEN Error(BAD_REQUEST)
        ELSE IF NoStoreMap(storemap) THEN Error(BAD_REQUEST)
        ELSE IF Len(path_components) = 0 THEN Returned(<<>>)
        ELSE LET store_name == Slashed(path_components[1])
             IN  IF store_name \notin DOMAIN storemap.TransactionStores
                 THEN Error(BAD_REQUEST)
                 ELSE LET store == storemap.TransactionStores[store_name]
                      IN  IF Len(path_components) = 1 THEN Returned(<<>>)
                          ELSE IF path_components[2] = "*" THEN Returned(<<>>)
                          ELSE IF path_components[2] \notin store
                          THEN Error(BAD_REQUEST)
                          ELSE Returned(<<>>)

Got(q) ==
    LET prefix == Selector(q.path, GetPageMap)
        components == Tail(q.path)
        test_only == (q.method = "HEAD")
        answer == IF prefix = "block"
                  THEN handle_blk_request(q, components, test_only)
                  ELSE IF prefix = "store"
                  THEN handle_store_request(q, components, test_only)
                  ELSE handle_txn_request(q, components, test_only)
    IN  IF answer.status # OK
        THEN error_response([q EXCEPT !.prefix = prefix], answer.status,
                            "exception while processing http request")
        ELSE [q EXCEPT !.prefix = prefix, !.pc = "returned",
                       !.response = answer.value,
                       !.result = IF test_only THEN ""
                                  ELSE "response as json"]

DoGet(r) ==
    /\ r \in DOMAIN req
    /\ req[r].pc = "do_get"
    /\ req' = [req EXCEPT ![r] = Got(req[r])]
    /\ UNCHANGED <<ledger, delaystart, handled>>

Next ==
    \E r \in RequestIds :
        \/ render_POST(r)
        \/ render_GET(r)
        \/ DoGet(r)
        \/ PostDecode(r)
        \/ ValidateLookup(r)
        \/ CopyQueue(r)
        \/ ReplayQueue(r)
        \/ ReplayPending(r)
        \/ CheckCandidate(r)
        \/ PostHandler(r)
        \/ DoCommand(r)
        \/ DoCommandStart(r)
        \/ final(r)
        \/ errback(r)
        \/ Release(r)

Spec == Init /\ [][Next]_vars

(***************************************************************************)
(* SpecReplay: transaction messages posted to /forward, one after the      *)
(* other, on a node that is running, with longer queues.                   *)
(***************************************************************************)
InitReplay == InitWith({1}, MaxReplayQueue, MaxReplayPending, {FALSE})

NextReplay ==
    \E r \in RequestIds :
        \/ render_forward(r)
        \/ PostDecode(r)
        \/ ValidateLookup(r)
        \/ CopyQueue(r)
        \/ ReplayQueue(r)
        \/ ReplayPending(r)
        \/ CheckCandidate(r)
        \/ PostHandler(r)
        \/ final(r)
        \/ errback(r)
        \/ Release(r)

SpecReplay == InitReplay /\ [][NextReplay]_vars

(***************************************************************************)
(* SpecPair: two requests posting a transaction message to /forward, the   *)
(* second after the first has finished, with the ledger as it was.         *)
(***************************************************************************)
InitPair == InitWith({1, 2}, MaxPairQueue, MaxPairPending, {FALSE})

NextPair ==
    \E r \in RequestIds :
        \/ render_forward(r)
        \/ PostDecode(r)
        \/ ValidateLookup(r)
        \/ CopyQueue(r)
        \/ ReplayQueue(r)
        \/ ReplayPending(r)
        \/ CheckCandidate(r)
        \/ PostHandler(r)
        \/ final(r)
        \/ errback(r)

SpecPair == InitPair /\ [][NextPair]_vars

(***************************************************************************)
(* SpecQuery: read requests for blocks, transactions and stores on a       *)
(* ledger with a chain of committed blocks.                                *)
(***************************************************************************)
BlockNames == <<"b1", "b2", "b3", "b4", "b5">>

\* The ways to cut the sequence c into n consecutive blocks.
RECURSIVE Split(_, _)
Split(c, n) ==
    IF n = 0 THEN (IF c = <<>> THEN {<<>>} ELSE {})
    ELSE UNION {{<<SubSeq(c, 1, i)>> \o rest :
                    rest \in Split(SubSeq(c, i + 1, Len(c)), n - 1)} :
                i \in 0..Len(c)}

RECURSIVE Flat(_)
Flat(blocks) ==
    IF blocks = <<>> THEN <<>> ELSE Head(blocks) \o Flat(Tail(blocks))

\* The ledger after the blocks (oldest first, each the ids of its
\* transactions) were committed.
ChainOf(blocks) ==
    LET ids == {BlockNames[i] : i \in 1..Len(blocks)}
        at(b) == CHOOSE i \in 1..Len(blocks) : BlockNames[i] = b
    IN  [MostRecentCommittedBlockID |->
            IF blocks = <<>> THEN NullIdentifier ELSE BlockNames[Len(blocks)],
         GlobalStoreMap |->
            [b \in ids |->
                StoreMap(b, [f \in {"/A"} |->
                                StoreOf(Flat(SubSeq(blocks, 1, at(b))))])],
         MessageQueue |-> <<>>,
         PendingTransactions |-> <<>>,
         TransactionStore |->
            [t \in Range(Flat(blocks)) |->
                [Status |-> "committed",
                 InBlock |-> CHOOSE b \in ids : t \in Range(blocks[at(b)])]],
         BlockStore |->
            [b \in ids |->
                [PreviousBlockID |-> IF at(b) = 1 THEN NullIdentifier
                                     ELSE BlockNames[at(b) - 1],
                 TransactionIDs |-> blocks[at(b)]]]]

ChainStates(maxblocks) ==
    {ChainOf(blocks) :
        blocks \in UNION {Split(c, n) :
                            c \in DistinctSeqs(LedgerTxnIds,
                                               Cardinality(LedgerTxnIds)),
                            n \in 0..maxblocks}}

ListingArgs ==
    {[blockcount |-> c, blockid |-> None] :
        c \in {NoCount, BadCount} \cup {Count(n) : n \in 0..MaxBlocks}}

StoreArgs == {[blockcount |-> NoCount, blockid |-> b] : b \in {None, "b1", "b9"}}

QueryPaths ==
    {<<p>> : p \in {"transaction", "block", "store"}}
    \cup {<<"transaction", t>> : t \in {"t1", "t9"}}
    \cup {<<"transaction", t, f>> : t \in {"t1", "t9"}, f \in {"Status", "Nope"}}
    \cup {<<"block", b>> : b \in {"b1", "b9"}}
    \cup {<<"block", b, f>> : b \in {"b1", "b9"}, f \in {"TransactionIDs", "Nope"}}
    \cup {<<"store", n>> : n \in {"A", "Z"}}
    \cup {<<"store", n, k>> : n \in {"A", "Z"}, k \in {"k1", "k9", "*"}}

QueryRequests ==
    {q \in [method : {"GET", "HEAD"}, path : QueryPaths, encoding : {None},
            data : {Junk}, ip : {"10.0.0.7"},
            args : ListingArgs \cup StoreArgs] :
        /\ q.args.blockcount # NoCount =>
              q.path \in {<<"transaction">>, <<"block">>}
        /\ q.args.blockid # None => q.path[1] = "store"}

render_query(r) == Arrive(r, QueryRequests, 1, "do_get")

InitQuery == InitOn({1}, ChainStates(MaxBlocks), {FALSE})

NextQuery ==
    \E r \in RequestIds :
        \/ render_query(r)
        \/ DoGet(r)
        \/ final(r)
        \/ Release(r)

SpecQuery == InitQuery /\ [][NextQuery]_vars

(***************************************************************************)
(* SpecPool: two requests posting a transaction message to /forward, each  *)
(* on a worker thread of its own, their steps interleaved; the ledger      *)
(* stays as it is.                                                         *)
(***************************************************************************)
InitPool == InitWith({1, 2}, MaxPoolQueue, MaxPoolPending, {FALSE})

NextPool ==
    \E r \in RequestIds :
        \/ render_pooled(r)
        \/ PostDecode(r)
        \/ ValidateLookup(r)
        \/ CopyQueue(r)
        \/ ReplayQueue(r)
        \/ ReplayPending(r)
        \/ CheckCandidate(r)
        \/ PostHandler(r)
        \/ final(r)
        \/ errback(r)

SpecPool == InitPool /\ [][NextPool]_vars

(***************************************************************************)
(* The gossip and commit side of the validator, which runs on the reactor  *)
(* thread while do_post runs on a worker thread: it puts messages on the   *)
(* ledger's queue and takes the oldest off, makes a transaction pending    *)
(* and drops one of the pending ones.  And the peer of a request, who may   *)
(* close the connection before the request is answered.                    *)
(***************************************************************************)
Enqueue ==
    /\ Len(MessageQueue) < MaxEnvQueue
    /\ \E m \in QueuedMessages : MessageQueue' = Append(MessageQueue, m)
    /\ UNCHANGED <<LedgerBlockStore, MostRecentCommittedBlockID, GlobalStoreMap,
                   PendingTransactions, TransactionStore, delaystart,
                   handled, req>>

Dequeue ==
    /\ MessageQueue # <<>>
    /\ MessageQueue' = Tail(MessageQueue)
    /\ UNCHANGED <<LedgerBlockStore, MostRecentCommittedBlockID, GlobalStoreMap,
                   PendingTransactions, TransactionStore, delaystart,
                   handled, req>>

AddPending ==
    /\ Len(PendingTransactions) < MaxEnvPending
    /\ \E t \in LedgerTxnIds \ DOMAIN TransactionStore :
        /\ PendingTransactions' = Append(PendingTransactions, t)
        /\ TransactionStore' =
             [x \in DOMAIN TransactionStore \cup {t} |->
                 IF x = t THEN [Status |-> "pending", InBlock |-> None]
                 ELSE TransactionStore[x]]
    /\ UNCHANGED <<LedgerBlockStore, MostRecentCommittedBlockID, GlobalStoreMap, MessageQueue,
                   delaystart, handled, req>>

RemovePending ==
    /\ \E i \in 1..Len(PendingTransactions) :
        /\ PendingTransactions' =
              SubSeq(PendingTransactions, 1, i - 1)
                \o SubSeq(PendingTransactions, i + 1, Len(PendingTransactions))
        /\ TransactionStore' =
              [x \in DOMAIN TransactionStore \ {PendingTransactions[i]} |->
                  TransactionStore[x]]
    /\ UNCHANGED <<LedgerBlockStore, MostRecentCommittedBlockID, GlobalStoreMap, MessageQueue,
                   delaystart, handled, req>>

ConnectionLost(r) ==
    /\ r \in DOMAIN req
    /\ req[r].pc \notin {"idle", "completed", "failed"}
    /\ ~req[r].closed
    /\ req' = [req EXCEPT ![r].closed = TRUE]
    /\ UNCHANGED <<ledger, delaystart, handled>>

(***************************************************************************)
(* SpecEnv: transaction messages posted to /forward while the gossip and   *)
(* commit side works on the ledger.                                        *)
(***************************************************************************)
InitEnv == InitWith({1}, MaxEnvQueue, MaxEnvPending, {FALSE})

NextEnv ==
    \/ Enqueue
    \/ Dequeue
    \/ AddPending
    \/ RemovePending
    \/ \E r \in RequestIds :
        \/ render_forward(r)
        \/ PostDecode(r)
        \/ ValidateLookup(r)
        \/ CopyQueue(r)
        \/ ReplayQueue(r)
        \/ ReplayPending(r)
        \/ CheckCandidate(r)
        \/ PostHandler(r)
        \/ final(r)
        \/ errback(r)
        \/ Release(r)

SpecEnv == InitEnv /\ [][NextEnv]_vars

(***************************************************************************)
(* SpecClose: transaction messages posted to /forward by peers that may    *)
(* close the connection before they are answered.                          *)
(***************************************************************************)
InitClose == InitWith({1}, MaxQueue, MaxPending, {FALSE})

NextClose ==
    \E r \in RequestIds :
        \/ render_forward(r)
        \/ ConnectionLost(r)
        \/ PostDecode(r)
        \/ ValidateLookup(r)
        \/ CopyQueue(r)
        \/ ReplayQueue(r)
        \/ ReplayPending(r)
        \/ CheckCandidate(r)
        \/ PostHandler(r)
        \/ final(r)
        \/ errback(r)
        \/ Release(r)

SpecClose == InitClose /\ [][NextClose]_vars

(***************************************************************************)
(* SpecLive: transaction messages posted to /forward and read requests,    *)
(* one after the other.  The thread that deferToThread gave do_post or     *)
(* do_get to runs it until it returns or raises (nothing in them waits),   *)
(* and the reactor then calls final or errback: the steps of a request     *)
(* that is under way are taken sooner or later.  Clients need not send     *)
(* requests.                                                               *)
(***************************************************************************)
InitLive == InitWith({1}, MaxLiveQueue, MaxLivePending, {FALSE})

\* A step of the worker thread of request r, or of its deferred's callbacks.
Work(r) ==
    \/ DoGet(r)
    \/ PostDecode(r)
    \/ ValidateLookup(r)
    \/ CopyQueue(r)
    \/ ReplayQueue(r)
    \/ ReplayPending(r)
    \/ CheckCandidate(r)
    \/ PostHandler(r)
    \/ final(r)
    \/ errback(r)

NextLive ==
    \E r \in RequestIds :
        \/ render_forward(r)
        \/ render_GET(r)
        \/ Work(r)
        \/ Release(r)

SpecLive ==
    InitLive /\ [][NextLive]_vars /\ \A r \in RequestIds : WF_vars(Work(r))

(***************************************************************************)
(* SpecStart: /command requests on two worker threads of the pool, on a    *)
(* node that is held or running.                                           *)
(***************************************************************************)
CommandRequests == {q \in PostRequests : q.path = <<"command">>}

render_command(r) == Arrive(r, CommandRequests, 2, "do_post")

InitStart == InitWith({1, 2}, MaxQueue, MaxPending, BOOLEAN)

NextStart ==
    \E r \in RequestIds :
        \/ render_command(r)
        \/ PostDecode(r)
        \/ DoCommand(r)
        \/ DoCommandStart(r)
        \/ final(r)
        \/ Release(r)

SpecStart == InitStart /\ [][NextStart]_vars


(***************************************************************************)
(*                              The claims                                 *)
(***************************************************************************)
CarriesTxn(q) == q.msg.HasTransaction /\ q.msg.Transaction # None

ValidationPcs ==
    {"validate", "copy_queue", "replay_queue", "replay_pending", "check"}

Answering(q) == q.pc \in {"returned", "completed"}

\* The family stores of the most recently committed block.
CommittedStores == get_block_store(MostRecentCommittedBlockID).TransactionStores

\* C1: a step of the validation of do_post (lookup, queue copy, a turn of
\* either replay loop, the candidate's check; accepting or refusing) leaves
\* the ledger's Global Store Map with its family stores, its Message Queue
\* and its Pending Transactions as they were, and with them the rest of the
\* ledger, the startup hold, the calls of handle_message, the other requests
\* and the request itself as it arrived: only the handler's locals change.
C1_ValidationLeavesLedgerAlone ==
    [][\A r \in DOMAIN req :
          (req[r].pc \in ValidationPcs /\ req'[r] # req[r]) =>
              /\ GlobalStoreMap' = GlobalStoreMap
              /\ MessageQueue' = MessageQueue
              /\ PendingTransactions' = PendingTransactions
              /\ TransactionStore' = TransactionStore
              /\ MostRecentCommittedBlockID' = MostRecentCommittedBlockID
              /\ delaystart' = delaystart
              /\ handled' = handled
              /\ \A x \in DOMAIN req \ {r} : req'[x] = req[x]
              /\ req'[r].method = req[r].method
              /\ req'[r].path = req[r].path
              /\ req'[r].encoding = req[r].encoding
              /\ req'[r].data = req[r].data
              /\ req'[r].ip = req[r].ip
              /\ req'[r].msg = req[r].msg]_vars

\* A validation has replayed queued and pending entries, emptied its queue
\* copy and changed its own stores, and the ledger still holds them all.
C1_Witness ==
    \E r \in DOMAIN req :
        /\ req[r].pc = "check"
        /\ req[r].my_queue.ref = "copy"
        /\ req[r].my_queue.items = <<>>
        /\ Len(MessageQueue) = MaxReplayQueue
        /\ PendingTransactions # <<>>
        /\ req[r].temp_store_map.TransactionStores # CommittedStores

\* C2: a message with a transaction is passed to Ledger.handle_message (by
\* /forward, the default selector or /initiate) only by a request whose
\* check_valid of that transaction returned without raising, after the whole
\* queue copy and every pending transaction were replayed, and on the stores
\* so replayed; a request whose check raised passes nothing on.
C2_ForwardOnlyChecked ==
    \A r \in DOMAIN req :
        LET q == req[r]
        IN  /\ \A i \in 1..Len(handled[r]) :
                 handled[r][i].Transaction # None =>
                    /\ handled[r][i].Transaction = q.msg.Transaction
                    /\ q.checked = "ok"
                    /\ q.my_queue.ref # None
                    /\ Items(q.my_queue) = <<>>
                    /\ q.txn_iter = Len(PendingTransactions)
                    /\ check_valid(q.msg.Transaction,
                         Stores(q.temp_store_map)[
                             TransactionTypeName(q.msg.Transaction)]) = "ok"
            /\ (q.checked \in {"InvalidTransactionError", "Exception"}
                  \/ q.pc \in {"raised", "failed"}) => handled[r] = <<>>

\* /initiate from the node itself has passed on a checked transaction.
C2_Witness ==
    \E r \in DOMAIN req :
        /\ req[r].pc = "completed"
        /\ req[r].prefix = "initiate"
        /\ Len(handled[r]) = 1
        /\ handled[r][1].Transaction = "t1"
        /\ MessageQueue # <<>>

RemoteInitiate(q) == q.path = <<"initiate">> /\ q.ip # LOOPBACK

\* C3: an /initiate request from another address than 127.0.0.1 never has
\* Ledger.handle_message called and never has its message signed.
C3_RemoteInitiateNeverForwards ==
    \A r \in DOMAIN req :
        RemoteInitiate(req[r]) =>
            /\ handled[r] = <<>>
            /\ ~req[r].msg.SignedByNode

\* Such a request came to its handler with a checked transaction.
C3_Witness ==
    \E r \in DOMAIN req :
        /\ RemoteInitiate(req[r])
        /\ req[r].pc = "completed"
        /\ req[r].checked = "ok"
        /\ req[r].code = NOT_ALLOWED

\* C4, as claimed: every /initiate request from another address is answered
\* not-allowed, whatever its payload.
C4_AlwaysNotAllowed ==
    \A r \in DOMAIN req :
        (RemoteInitiate(req[r]) /\ Answering(req[r])) =>
            req[r].code = NOT_ALLOWED

\* C4, amended: an /initiate request from another address is never answered
\* with success; it is answered not-allowed exactly when its payload decoded
\* to a message of a known type whose transaction, if it has one, passed the
\* validation, and bad-request otherwise.
C4_NotAllowedOnceHandled ==
    \A r \in DOMAIN req :
        LET q == req[r]
        IN  (RemoteInitiate(q) /\ Answering(q)) =>
                /\ q.code \in {NOT_ALLOWED, BAD_REQUEST}
                /\ q.code = NOT_ALLOWED <=>
                     /\ q.msg # NoMsg
                     /\ (CarriesTxn(q) => q.checked = "ok")

\* Such a request with a transaction that fails the validation is answered
\* bad-request.
C4_Witness ==
    \E r \in DOMAIN req :
        /\ RemoteInitiate(req[r])
        /\ req[r].pc = "completed"
        /\ req[r].checked = "InvalidTransactionError"
        /\ req[r].code = BAD_REQUEST

\* C5: a request whose transaction is of a family without a store in the
\* store map of the most recently committed block is answered bad-request
\* and passes nothing on, whatever is queued or pending; it is refused
\* before the queue is copied and before any entry is replayed.
C5_UnknownFamilyRefused ==
    \A r \in DOMAIN req :
        LET q == req[r]
        IN  (/\ CarriesTxn(q)
             /\ q.pc # "validate"
             /\ TransactionTypeName(q.msg.Transaction) \notin DOMAIN CommittedStores)
            => /\ Answering(q)
               /\ q.code = BAD_REQUEST
               /\ q.result = "unable to validate enclosed transaction"
               /\ handled[r] = <<>>
               /\ q.my_queue = NoQueue
               /\ q.txn_iter = 0
               /\ q.temp_store_map = NoneStoreMap
               /\ q.checked = None

\* A transaction of family "/X" was refused on a node that has a store map,
\* queued messages and pending transactions.
C5_Witness ==
    \E r \in DOMAIN req :
        /\ req[r].pc = "completed"
        /\ req[r].msg.Transaction = "tx"
        /\ req[r].code = BAD_REQUEST
        /\ DOMAIN CommittedStores # {}
        /\ MessageQueue # <<>>
        /\ PendingTransactions # <<>>

\* C6: on a node without a store map for the most recently committed block,
\* the validation of any transaction ends in a bad-request answer, nothing is
\* passed on, and do_post raises nothing.
C6_NoStateRefused ==
    \A r \in DOMAIN req :
        LET q == req[r]
        IN  (/\ CarriesTxn(q)
             /\ q.pc # "validate"
             /\ MostRecentCommittedBlockID \notin DOMAIN GlobalStoreMap)
            => /\ Answering(q)
               /\ q.code = BAD_REQUEST
               /\ handled[r] = <<>>

\* A transaction of the registered family was refused on such a node.
C6_Witness ==
    \E r \in DOMAIN req :
        /\ req[r].pc = "completed"
        /\ req[r].msg.Transaction = "t1"
        /\ req[r].code = BAD_REQUEST
        /\ MostRecentCommittedBlockID \notin DOMAIN GlobalStoreMap
        /\ MessageQueue # <<>>


\* Replaying one transaction on the family stores: applied to its family's
\* store when it validates against that store as it is, skipped otherwise.
AfterTxn(stores, t) ==
    LET name == TransactionTypeName(t)
    IN  IF name \in DOMAIN stores /\ is_valid(t, stores[name])
        THEN [stores EXCEPT ![name] = apply(t, stores[name])]
        ELSE stores

AfterMessage(stores, m) ==
    IF m.MessageType \in MessageHandlerMap /\ m.HasTransaction
          /\ m.Transaction # None
    THEN AfterTxn(stores, m.Transaction)
    ELSE stores

\* The queue replayed from its newest (last) message to its oldest.
RECURSIVE NewestFirst(_, _)
NewestFirst(stores, queue) ==
    IF queue = <<>> THEN stores
    ELSE NewestFirst(AfterMessage(stores, queue[Len(queue)]),
                     SubSeq(queue, 1, Len(queue) - 1))

\* The pending transactions replayed in the order of their keys.
RECURSIVE InKeyOrder(_, _)
InKeyOrder(stores, txns) ==
    IF txns = <<>> THEN stores
    ELSE InKeyOrder(AfterTxn(stores, Head(txns)), Tail(txns))

\* C7: the queue copy is replayed newest-first (of [A, B, C] with C queued
\* last: C, then B, then A), each entry validated against the stores as the
\* entries before it left them and skipped when it does not validate; the
\* pending transactions are replayed only after the whole queue; and the
\* candidate is checked last, against the stores all of them left.
C7_ReplayNewestFirst ==
    \A r \in DOMAIN req :
        LET q == req[r]
            mine == q.temp_store_map.TransactionStores
            left == q.my_queue.items
            n == Len(left)
            all == Len(MessageQueue)
            queued == NewestFirst(CommittedStores, MessageQueue)
        IN  /\ q.pc = "replay_queue" =>
                /\ n <= all
                /\ left = SubSeq(MessageQueue, 1, n)
                /\ mine = NewestFirst(CommittedStores,
                                      SubSeq(MessageQueue, n + 1, all))
                /\ q.txn_iter = 0
            /\ q.pc = "replay_pending" =>
                /\ left = <<>>
                /\ mine = InKeyOrder(queued,
                            SubSeq(PendingTransactions, 1, q.txn_iter))
            /\ q.pc = "check" =>
                /\ left = <<>>
                /\ mine = InKeyOrder(queued, PendingTransactions)
            /\ q.checked # None =>
                q.checked =
                    check_valid(q.msg.Transaction,
                        InKeyOrder(queued, PendingTransactions)[
                            TransactionTypeName(q.msg.Transaction)])

\* Of the queue [t2, plain, t1], t1 was applied first and made t2 valid.
C7_Witness ==
    \E r \in DOMAIN req :
        /\ req[r].pc = "check"
        /\ MessageQueue = <<TxnMsg("t2"), PlainMsg, TxnMsg("t1")>>
        /\ CommittedStores["/A"] = {}
        /\ PendingTransactions = <<>>
        /\ req[r].temp_store_map.TransactionStores["/A"] = {"k1", "k2"}

\* What a validation came to.
Settled(q) ==
    CarriesTxn(q) /\ q.pc \in {"returned", "completed", "raised", "failed"}

Outcome(q) ==
    IF q.pc \in {"raised", "failed"} THEN "raised"
    ELSE IF q.checked = "ok" THEN "accepted"
    ELSE "rejected"

HeadOfTransaction(q) ==
    /\ q.method = "HEAD"
    /\ Len(q.path) = 2
    /\ q.path[1] = "transaction"

\* C9: a HEAD request for /transaction/<id> is answered 404 when the id is
\* not in the transaction store, 302 when it is there and not committed, 200
\* when it is there and committed; nothing is returned or written as body.
C9_HeadTernary ==
    \A r \in DOMAIN req :
        LET q == req[r]
            id == q.path[2]
        IN  (HeadOfTransaction(q) /\ q.pc \notin {"idle", "do_get"}) =>
                /\ Answering(q)
                /\ q.result = ""
                /\ q.pc = "completed" => q.written = ""
                /\ id \notin DOMAIN TransactionStore => q.code = NOT_FOUND
                /\ (id \in DOMAIN TransactionStore
                      /\ TransactionStore[id].Status # "committed")
                   => q.code = FOUND
                /\ (id \in DOMAIN TransactionStore
                      /\ TransactionStore[id].Status = "committed")
                   => q.code = OK

\* A HEAD request for a pending transaction was answered 302.
C9_Witness ==
    \E r \in DOMAIN req :
        /\ HeadOfTransaction(req[r])
        /\ req[r].pc = "completed"
        /\ req[r].path[2] \in DOMAIN TransactionStore
        /\ TransactionStore[req[r].path[2]].Status = "pending"
        /\ req[r].code = FOUND
        /\ req[r].written = ""

\* C10: for a /command request handled while no other is (one request at a
\* time): 'start' with the startup hold set clears the hold and returns
\* 'started'; 'start' with the hold not set returns 'running' and leaves it
\* cleared; another action returns 'startup failed' and leaves the hold as
\* it is.  The hold, once cleared, stays cleared, so that a later 'start'
\* returns 'running'.
C10_Command ==
    [][\A r \in DOMAIN req :
          LET q == req[r]
              p == req'[r]
          IN  /\ (q.pc = "command" /\ q.cmd = "start" /\ delaystart /\ p # q) =>
                    p.pc = "command_start" /\ delaystart'
              /\ (q.pc = "command_start" /\ p # q) =>
                    /\ delaystart /\ ~delaystart'
                    /\ p.pc = "returned" /\ p.result = "started" /\ p.code = OK
              /\ (q.pc = "command" /\ q.cmd = "start" /\ ~delaystart /\ p # q) =>
                    /\ ~delaystart'
                    /\ p.pc = "returned" /\ p.result = "running" /\ p.code = OK
              /\ (q.pc = "command" /\ q.cmd \notin {"start", None} /\ p # q) =>
                    /\ delaystart' = delaystart
                    /\ p.pc = "returned" /\ p.result = "startup failed"
                    /\ p.code = OK
              /\ ~delaystart => ~delaystart']_vars

\* A 'start' was answered 'started' and the hold is cleared.
C10_Witness ==
    \E r \in DOMAIN req :
        /\ req[r].pc = "completed"
        /\ req[r].path = <<"command">>
        /\ req[r].written = "started"
        /\ ~delaystart


\* C11: a POST whose message has no Transaction attribute, or None for it,
\* and a /command request never enter the validation: no store map is looked
\* up, no queue copied, nothing replayed, check_valid not called.  The
\* message goes from the decoding straight to the handler of its path.
C11_NoTransactionNoValidation ==
    \A r \in DOMAIN req :
        LET q == req[r]
        IN  (q.method = "POST" /\ q.pc # "do_post" /\ ~CarriesTxn(q)) =>
                /\ q.pc \notin ValidationPcs
                /\ q.temp_store_map = NoneStoreMap
                /\ q.my_queue = NoQueue
                /\ q.txn_iter = 0
                /\ q.checked = None
                /\ q.msg # NoMsg =>
                     /\ q.pc \in {"handler", "returned", "completed"}
                     /\ (Answering(q) /\ q.prefix \in {"default", "forward"})
                          => handled[r] = <<q.msg>>
                /\ q.prefix = "command" =>
                     q.pc \in {"command", "command_start", "returned", "completed"}

\* A message without a transaction was forwarded on a node with no store map.
C11_Witness ==
    \E r \in DOMAIN req :
        /\ req[r].pc = "completed"
        /\ req[r].msg = PlainMsg
        /\ handled[r] = <<PlainMsg>>
        /\ MostRecentCommittedBlockID \notin DOMAIN GlobalStoreMap

UnknownEncoding(q) ==
    /\ q.method = "POST"
    /\ IF Selector(q.path, PostPageMap) = "command" THEN q.encoding # JSON
       ELSE q.encoding \notin {JSON, CBOR}

\* C12: a POST with a Content-Type that is not recognized (other than JSON
\* or CBOR for a message, other than JSON for /command) is answered
\* bad-request by the first step of do_post and only written out after it:
\* no message is built, no validation run, no handler called, nothing passed
\* on, and the startup hold and the ledger stay as they are.
C12_UnknownEncodingRefused ==
    [][\A r \in DOMAIN req :
          LET q == req[r]
              p == req'[r]
          IN  (UnknownEncoding(q) /\ p # q) =>
                /\ q.pc \in {"do_post", "returned", "completed"}
                /\ q.pc = "do_post" =>
                     /\ p.pc = "returned"
                     /\ p.code = BAD_REQUEST
                     /\ p.result \in {"unknown message encoding",
                                      "bad message encoding"}
                     /\ p.msg = NoMsg /\ p.cmd = None
                     /\ p.temp_store_map = NoneStoreMap
                     /\ p.my_queue = NoQueue
                     /\ p.checked = None
                /\ q.pc = "returned" =>
                     /\ p.pc = "completed"
                     /\ p.written = q.result /\ p.code = BAD_REQUEST
                /\ q.pc = "completed" => p = IdleRequest
                /\ handled[r] = <<>> /\ handled'[r] = <<>>
                /\ delaystart' = delaystart
                /\ UNCHANGED ledger]_vars

\* A 'start' command in a JSON body sent as text/plain was refused while
\* the startup hold is set.
C12_Witness ==
    \E r \in DOMAIN req :
        /\ req[r].pc = "completed"
        /\ req[r].path = <<"command">>
        /\ req[r].encoding = "text/plain"
        /\ req[r].data.wire = JSON
        /\ req[r].data.minfo.action = "start"
        /\ req[r].code = BAD_REQUEST
        /\ delaystart

\* C13, as claimed: the replay skips an entry it cannot replay (a queued
\* message of an unknown type, a queued or pending transaction of a family
\* without a store) and goes on: a validation that has its block store ends
\* with the whole queue copy and every pending transaction visited and the
\* candidate checked, never in an exception.
C13_ReplayLenient ==
    \A r \in DOMAIN req :
        LET q == req[r]
        IN  (/\ CarriesTxn(q)
             /\ q.temp_store_map # NoneStoreMap
             /\ q.pc \notin ValidationPcs)
            => /\ q.pc \notin {"raised", "failed"}
               /\ q.my_queue.items = <<>>
               /\ q.txn_iter = Len(PendingTransactions)
               /\ q.checked # None

\* C14, as claimed: whatever fails while a GET or POST request is handled is
\* answered with a status code by do_get / do_post; no exception leaves them
\* for errback and request.processingFailed.
C14_NothingLeavesAsException ==
    \A r \in DOMAIN req : req[r].pc \notin {"raised", "failed"}

IsPrefix(s, t) == Len(s) <= Len(t) /\ s = SubSeq(t, 1, Len(s))

\* C15, as claimed: while the gossip and commit side changes the Message
\* Queue and the Pending Transactions, a validation replays the queue as it
\* was when it copied it and the pending transactions as they were at one
\* instant before their replay (the latest such: when the replay of the
\* queue had ended), and does not fail because of a change in between.
C15_PointInTimeCopies ==
    \A r \in DOMAIN req :
        LET q == req[r]
        IN  /\ q.pc = "replay_queue" =>
                /\ q.my_queue.ref = "copy"
                /\ IsPrefix(q.my_queue.items, q.copied)
            /\ q.pc = "replay_pending" => IsPrefix(q.visited, q.snapshot)
            /\ (q.pc = "check" \/ q.checked # None) => q.visited = q.snapshot
            /\ q.pc \in {"raised", "failed"} => q.result # "RuntimeError"

\* C20: final, called for a request whose peer has closed the connection,
\* does not fail: it logs the condition and the request is completed, not
\* handed to errback; and what the handler did (an accepted message passed
\* to Ledger.handle_message) is done all the same.
C20_LateCompletion ==
    [][\A r \in DOMAIN req :
          LET q == req[r]
              p == req'[r]
          IN  /\ (q.pc = "returned" /\ p.pc # "returned") =>
                    /\ p.pc = "completed"
                    /\ handled' = handled
                    /\ IF q.closed
                       THEN p.logged /\ p.written = None
                       ELSE ~p.logged /\ p.written = q.result
              /\ (q.pc = "returned" /\ q.checked = "ok") =>
                    handled[r] = <<q.msg>>]_vars

\* An accepted message was forwarded for a peer that had gone when the
\* answer was to be written.
C20_Witness ==
    \E r \in DOMAIN req :
        /\ req[r].pc = "completed"
        /\ req[r].closed /\ req[r].logged
        /\ req[r].checked = "ok"
        /\ handled[r] = <<req[r].msg>>

\* What the validation of transaction t comes to on the ledger as it is,
\* run with no other request around: "refused" before the replay, "raised"
\* by an entry of a family without a store, else what check_valid gives on
\* the stores replayed.
RunAlone(t) ==
    LET stores == CommittedStores
        unknown(x) == TransactionTypeName(x) \notin DOMAIN stores
        full == InKeyOrder(NewestFirst(stores, MessageQueue), PendingTransactions)
    IN  IF unknown(t) THEN "refused"
        ELSE IF \/ \E i \in 1..Len(MessageQueue) :
                     /\ MessageQueue[i].MessageType \in MessageHandlerMap
                     /\ MessageQueue[i].HasTransaction
                     /\ MessageQueue[i].Transaction # None
                     /\ unknown(MessageQueue[i].Transaction)
                \/ \E i \in 1..Len(PendingTransactions) :
                     unknown(PendingTransactions[i])
        THEN "raised"
        ELSE check_valid(t, full[TransactionTypeName(t)])

Verdict(q) ==
    IF q.pc \in {"raised", "failed"} THEN "raised"
    ELSE IF q.checked = None THEN "refused"
    ELSE q.checked

\* C16: of two validations running at the same time each has a block store
\* and a queue copy of its own; what one has applied does not show in the
\* stores of the other (the stores of a request that has replayed nothing
\* yet are the committed ones, those its candidate is checked on are the
\* ones its own replay gives), and each comes to what it comes to alone.
C16_ConcurrentValidationsIsolated ==
    \A r \in DOMAIN req :
        LET q == req[r]
            mine == q.temp_store_map.TransactionStores
        IN  /\ q.temp_store_map # NoneStoreMap =>
                /\ q.temp_store_map.of = None
                /\ q.my_queue.ref \in {None, "copy"}
                /\ \A x \in DOMAIN req \ {r} :
                      req[x].temp_store_map # NoneStoreMap =>
                          Stores(req[x].temp_store_map)
                              = req[x].temp_store_map.TransactionStores
            /\ (q.pc = "replay_queue" /\ q.my_queue.items = MessageQueue) =>
                  mine = CommittedStores
            /\ q.pc = "check" =>
                  mine = InKeyOrder(NewestFirst(CommittedStores, MessageQueue),
                                    PendingTransactions)
            /\ Settled(q) => Verdict(q) = RunAlone(q.msg.Transaction)

\* One request has applied a queued transaction to its stores while the
\* other, with the same queue still to replay, has the committed stores.
C16_Witness ==
    /\ DOMAIN req = {1, 2}
    /\ req[1].pc = "check"
    /\ req[1].temp_store_map.TransactionStores # CommittedStores
    /\ req[2].pc = "replay_queue"
    /\ req[2].my_queue.items = MessageQueue
    /\ MessageQueue # <<>>
    /\ req[2].temp_store_map.TransactionStores = CommittedStores

\* What a read request names that the ledger does not have.
Names(q, prefix, n) ==
    /\ q.method \in {"GET", "HEAD"}
    /\ Len(q.path) >= n
    /\ q.path[1] = prefix

UnknownTransaction(q) ==
    Names(q, "transaction", 2) /\ q.path[2] \notin DOMAIN TransactionStore

UnknownTransactionField(q) ==
    /\ Names(q, "transaction", 3) /\ q.method = "GET"
    /\ q.path[2] \in DOMAIN TransactionStore
    /\ q.path[3] \notin tinfo(TransactionStore[q.path[2]])

UnknownBlock(q) ==
    Names(q, "block", 2) /\ q.path[2] \notin DOMAIN LedgerBlockStore

UnknownBlockField(q) ==
    /\ Names(q, "block", 3)
    /\ q.path[2] \in DOMAIN LedgerBlockStore
    /\ q.path[3] \notin binfo

StoreMapOf(q) ==
    get_block_store(IF q.args.blockid # None THEN q.args.blockid
                    ELSE MostRecentCommittedBlockID)

UnknownStore(q) ==
    /\ Names(q, "store", 2)
    /\ StoreMapOf(q) # NoneStoreMap
    /\ Slashed(q.path[2]) \notin DOMAIN StoreMapOf(q).TransactionStores

UnknownKey(q) ==
    /\ Names(q, "store", 3)
    /\ StoreMapOf(q) # NoneStoreMap
    /\ Slashed(q.path[2]) \in DOMAIN StoreMapOf(q).TransactionStores
    /\ q.path[3] # "*"
    /\ q.path[3] \notin StoreMapOf(q).TransactionStores[Slashed(q.path[2])]

C18_ListingOldestFirst ==
    \A r \in DOMAIN req :
        LET q == req[r]
            count == q.args.blockcount
            newest == committed_block_ids(0)
            all == Len(newest)
            n == IF count.n = 0 \/ count.n > all THEN all ELSE count.n
            window == [i \in 1..n |->
                         LedgerBlockStore[newest[n + 1 - i]].TransactionIDs]
        IN  (/\ q.method = "GET" /\ q.path = <<"transaction">>
             /\ Answering(q)
             /\ ~count.present \/ count.valid)
            => /\ q.code = OK
               /\ q.response = Flat(window)
               /\ count.present = FALSE => q.response = Flat(
                      [i \in 1..all |->
                          LedgerBlockStore[BlockNames[i]].TransactionIDs])

\* Of three blocks with a transaction each, the newest two were listed.
C18_Witness ==
    \E r \in DOMAIN req :
        /\ req[r].pc = "completed"
        /\ req[r].method = "GET" /\ req[r].path = <<"transaction">>
        /\ req[r].args.blockcount = Count(2)
        /\ DOMAIN LedgerBlockStore = {"b1", "b2", "b3"}
        /\ \A b \in DOMAIN LedgerBlockStore :
              Len(LedgerBlockStore[b].TransactionIDs) = 1
        /\ req[r].response = LedgerBlockStore["b2"].TransactionIDs
                                \o LedgerBlockStore["b3"].TransactionIDs

\* The transaction the replay step of request q takes up: the one of the
\* message it pops off the queue copy, or the pending one it visits.
TakenUp(q, after) ==
    IF q.pc = "replay_queue"
    THEN {Items(q.my_queue)[i].Transaction :
            i \in {n \in {Len(Items(q.my_queue))} :
                     /\ n > 0
                     /\ Items(q.my_queue)[n].HasTransaction
                     /\ Items(q.my_queue)[n].Transaction # None}}
    ELSE IF q.pc = "replay_pending"
    THEN {after.visited[i] :
            i \in {n \in {Len(after.visited)} : n = Len(q.visited) + 1}}
    ELSE {}

\* C19: the family stores of a request's temporary store map change only in
\* a replay step, and then by apply of the one queued or pending transaction
\* the step takes up, to the store of its family, which is_valid of that
\* transaction accepted in the state the step started from; the step that
\* checks the candidate changes no store.
C19_ApplyOnlyAfterValid ==
    [][\A r \in DOMAIN req \cap DOMAIN req' :
          LET q == req[r]
              after == req'[r]
              stores == q.temp_store_map.TransactionStores
          IN  (/\ q.temp_store_map # NoneStoreMap
               /\ after.temp_store_map # NoneStoreMap
               /\ after.temp_store_map.TransactionStores # stores)
              => /\ q.pc \in {"replay_queue", "replay_pending"}
                 /\ \E t \in TakenUp(q, after) :
                      LET name == TransactionTypeName(t)
                      IN  /\ name \in DOMAIN stores
                          /\ is_valid(t, stores[name])
                          /\ after.temp_store_map.TransactionStores =
                               [stores EXCEPT ![name] = apply(t, stores[name])]
    ]_vars

\* Of the queue [t1, t2] the replay skipped t2, which was not valid yet, and
\* applied t1; the candidate was accepted and what it adds is not in the
\* stores.
C19_Witness ==
    \E r \in DOMAIN req :
        /\ req[r].pc = "returned"
        /\ req[r].checked = "ok"
        /\ req[r].msg.Transaction = "t2"
        /\ MessageQueue = <<TxnMsg("t1"), TxnMsg("t2")>>
        /\ PendingTransactions = <<>>
        /\ CommittedStores["/A"] = {}
        /\ req[r].temp_store_map.TransactionStores["/A"] = {"k1"}

\* A request the pool has and that is not answered yet; one that is.
UnderWay(r) == r \in DOMAIN req /\ Busy(req[r])

Terminal(r) == r \in DOMAIN req /\ req[r].pc \in {"completed", "failed"}

\* C21: a request handed to the worker pool is sooner or later completed by
\* final or failed by errback, once: it is completed only from what its
\* handler returned and failed only from what it raised, and after either
\* nothing more happens to it.  On the way, a turn of the queue loop takes
\* exactly one message off the queue copy (or raises) and the loop is left
\* when the copy is empty; a turn of the pending loop visits the next
\* pending id, one not visited before, and the loop is left with every
\* pending id visited once.
C21_ReachesOneTerminalState ==
    /\ \A r \in RequestIds : UnderWay(r) ~> Terminal(r)
    /\ [][\A r \in DOMAIN req :
            LET q == req[r]
                p == req'[r]
                left == q.my_queue.items
            IN  /\ (q.pc = "replay_queue" /\ p # q /\ left # <<>>) =>
                      /\ p.pc \in {"replay_queue", "raised"}
                      /\ p.my_queue.items = SubSeq(left, 1, Len(left) - 1)
                /\ (q.pc = "replay_queue" /\ p # q /\ left = <<>>) =>
                      p.pc = "replay_pending" /\ p.visited = <<>>
                /\ (q.pc = "replay_pending" /\ p # q) =>
                      \/ p.pc = "raised"
                      \/ /\ p.pc = "check"
                         /\ q.visited = PendingTransactions
                      \/ /\ p.pc = "replay_pending"
                         /\ Len(q.visited) < Len(PendingTransactions)
                         /\ p.visited =
                              Append(q.visited,
                                     PendingTransactions[Len(q.visited) + 1])
                         /\ PendingTransactions[Len(q.visited) + 1]
                               \notin Range(q.visited)
                /\ (p.pc = "completed" /\ q.pc # "completed") =>
                      q.pc = "returned"
                /\ (p.pc = "failed" /\ q.pc # "failed") => q.pc = "raised"
                /\ (q.pc \in {"completed", "failed"} /\ p # q) =>
                      p = IdleRequest
           ]_vars

\* A transaction was accepted and answered after the replay of two queued
\* messages and two pending transactions.
C21_Witness ==
    \E r \in DOMAIN req :
        /\ req[r].pc = "completed"
        /\ req[r].checked = "ok"
        /\ Len(MessageQueue) = 2
        /\ Len(PendingTransactions) = 2
        /\ req[r].my_queue.items = <<>>
        /\ req[r].visited = PendingTransactions

\* A POST to /echo.
Echo(q) == q.method = "POST" /\ q.path = <<"echo">>

\* C22: no step of an /echo request, from its arrival to its release, calls
\* Ledger.handle_message or changes the ledger or the startup hold, whether
\* its transaction is accepted, refused, or the request fails.
C22_EchoForwardsNothing ==
    [][\A r \in DOMAIN req :
          (Echo(req[r]) \/ Echo(req'[r])) =>
              /\ handled[r] = <<>>
              /\ handled'[r] = <<>>
              /\ (req'[r] # req[r] =>
                    /\ UNCHANGED ledger
                    /\ UNCHANGED delaystart)
      ]_vars

\* An /echo request whose transaction was accepted got its message back
\* while the node was still held; nothing was passed on.
C22_Witness ==
    \E r \in DOMAIN req :
        /\ Echo(req[r])
        /\ req[r].pc = "completed"
        /\ req[r].checked = "ok"
        /\ req[r].code = OK
        /\ req[r].written = Encoded(req[r].encoding)
        /\ handled[r] = <<>>
        /\ delaystart

\* C23, as claimed: of the /command 'start' requests the worker threads
\* handle at the same time, at most one is answered 'started'.
C23_AtMostOneStarted ==
    Cardinality({r \in DOMAIN req :
                    /\ req[r].path = <<"command">>
                    /\ req[r].pc \in {"returned", "completed"}
                    /\ req[r].result = "started"}) <= 1

\* C24: a step changes the startup hold only from set to cleared, and only
\* as the step of a /command request with the action 'start' that is then
\* answered 'started' with success; every other step (of a GET, /forward,
\* /initiate or /echo request, of a refused or failing request, of another
\* command) leaves it as it is, and a cleared hold stays cleared.
C24_HoldOnlyClearedByStart ==
    [][/\ delaystart' # delaystart =>
            /\ delaystart = TRUE /\ delaystart' = FALSE
            /\ \E r \in DOMAIN req :
                  /\ req[r].method = "POST"
                  /\ req[r].path = <<"command">>
                  /\ req[r].cmd = "start"
                  /\ req'[r].pc = "returned"
                  /\ req'[r].result = "started"
                  /\ req'[r].code = OK
                  /\ \A o \in DOMAIN req \ {r} : req'[o] = req[o]
       /\ delaystart = FALSE => delaystart' = FALSE
      ]_vars

\* A command other than 'start' was answered and the node is still held.
C24_Witness ==
    \E r \in DOMAIN req :
        /\ req[r].pc = "completed"
        /\ req[r].path = <<"command">>
        /\ req[r].written = "startup failed"
        /\ req[r].code = OK
        /\ delaystart

=============================================================================
